---- MODULE Spec2Model ----
(***************************************************************************)
(* Model of zeitgitter's Stamper (src/zeitgitter/stamper.py): request      *)
(* validation, the serialized clock sample + commit log append, the        *)
(* semaphore-limited signing through a round-robin pool of GnuPG handles,  *)
(* and the text of the signed commit object.                               *)
(*                                                                         *)
(* Python strings are sequences of one-character strings; None is the      *)
(* sentinel NoneVal, which is no such sequence.                            *)
(***************************************************************************)
EXTENDS Integers, Sequences, FiniteSets, TLC

\* ---------------------------------------------------------------- bounds
NumThreads == 2      \* request threads of the server layer
MaxClock == 1        \* the clock reads 0..MaxClock
LenSlack == 1        \* probed strings have CommitLen-LenSlack..CommitLen+LenSlack characters
MaxRequests == 3     \* calls the threads of SpecServe make in all
MaxSigLen == 4       \* characters of a signature text handed to the formatting

\* ------------------------------------------------------ program constants
CommitLen == 40      \* '^[0-9a-f]{40}$'
TagTail == 99        \* '^[a-z][-._a-z0-9]{,99}$'

Threads == 1..NumThreads
None == "None"             \* None where the other values are numbers or outcomes
NoneVal == <<"None">>      \* None where the other values are strings
Free == 0                  \* a lock nobody holds

VARIABLES
    config,          \* zeitgitter.config.arg: the values the Stamper reads
    extra_delay,     \* self.extra_delay
    clock,           \* what time.time() / IGITT_FAKE_TIME read last
    log,             \* hashes.work: per line its text, whether it was fsynced,
                     \* and (history) the thread that wrote it and the time it sampled
    lock_order,      \* (history) the threads in the order they took `serialize`
    serialize,       \* zeitgitter.commit.serialize: holder or Free
    sem,             \* self.sem: permits available
    gpg_serialize,   \* self.gpg_serialize: holder or Free
    gpgs,            \* self.gpgs: the handles, by the index suffix of their home
    selections,      \* (history) the handles gpg() returned, in pool-lock order
    pc,              \* per thread: where it is in stamp_tag / stamp_branch
    req,             \* per thread: the arguments of its call
    now,             \* per thread: the local `now`
    handle,          \* per thread: the handle gpg() returned to it
    turn,            \* per thread (history): which selection of `selections` was its
    ret,             \* per thread: how the call ended
    probe            \* argument and result of a validator applied on its own

vars == <<config, extra_delay, clock, log, lock_order, serialize, sem, gpg_serialize,
          gpgs, selections, pc, req, now, handle, turn, ret, probe>>

\* ------------------------------------------------------------- strings
Rep(c, n) == [i \in 1..n |-> c]
Subst(s, p, d) == [i \in 1..Len(s) |-> IF i = p THEN d ELSE s[i]]
HasNewline(s) == \E i \in 1..Len(s) : s[i] = "\n"

Digits == {"0", "1", "2", "3", "4", "5", "6", "7", "8", "9"}
Lower == {"a", "b", "c", "d", "e", "f", "g", "h", "i", "j", "k", "l", "m",
          "n", "o", "p", "q", "r", "s", "t", "u", "v", "w", "x", "y", "z"}
Upper == {"A", "B", "C", "D", "E", "F", "G", "H", "I", "J", "K", "L", "M",
          "N", "O", "P", "Q", "R", "S", "T", "U", "V", "W", "X", "Y", "Z"}
HexLower == Digits \cup {"a", "b", "c", "d", "e", "f"}

\* ---------------------------------------------------------- validators
\* re.match('^[0-9a-f]{40}$', commit): '$' matches at the end and also just
\* before a newline that ends the string.
CommitReMatches(commit) ==
    /\ Len(commit) \in {CommitLen, CommitLen + 1}
    /\ \A i \in 1..CommitLen : commit[i] \in HexLower
    /\ Len(commit) = CommitLen + 1 => commit[CommitLen + 1] = "\n"

\* valid_commit without its newline test
valid_commit_NoNewlineTest(commit) == CommitReMatches(commit)

valid_commit(commit) ==
    IF HasNewline(commit) THEN FALSE ELSE CommitReMatches(commit)

\* re.match('^[a-z][-._a-z0-9]{,99}$', tag, re.IGNORECASE)
\* With IGNORECASE a str pattern's [a-z] also matches the four non-ASCII
\* characters whose case folding is an ASCII letter.
Folded == {"U+0130", "U+0131", "U+017F", "U+212A"}
TagFirst == Lower \cup Upper \cup Folded
TagRest == TagFirst \cup Digits \cup {"-", ".", "_"}
TagReMatches(tag) ==
    \E n \in {Len(tag), Len(tag) - 1} :
        /\ n >= 1
        /\ n <= 1 + TagTail
        /\ tag[1] \in TagFirst
        /\ \A i \in 2..n : tag[i] \in TagRest
        /\ n = Len(tag) - 1 => tag[Len(tag)] = "\n"

HasDotDot(tag) == \E i \in 1..(Len(tag) - 1) : tag[i] = "." /\ tag[i + 1] = "."

valid_tag(tag) ==
    IF HasNewline(tag) THEN FALSE ELSE TagReMatches(tag) /\ ~HasDotDot(tag)

\* ------------------------------------------------------------ the pool
\* gpg(): grow while fewer than number_of_gpg_agents handles exist, else rotate
\* the size comparison off by one
GpgGrows_OffByOne(pool, n) == Len(pool) <= n

GpgGrows(pool, n) == Len(pool) < n
GpgReturned(pool, n) == IF GpgGrows(pool, n) THEN Len(pool) ELSE Head(pool)
\* a full pool hands out its front handle without moving it to the back
GpgPool_NoRotation(pool, n) ==
    IF GpgGrows(pool, n) THEN Append(pool, Len(pool)) ELSE pool

GpgPool(pool, n) ==
    IF GpgGrows(pool, n) THEN Append(pool, Len(pool))
                         ELSE Append(Tail(pool), Head(pool))

\* __init__: one handle, then self.gpg() for list_keys and for export_keys
InitGpgs(n) == GpgPool(GpgPool(<<0>>, n), n)
InitSelections(n) == <<GpgReturned(<<0>>, n), GpgReturned(GpgPool(<<0>>, n), n)>>

\* ------------------------------------------------------ sample arguments
CommitA == Rep("a", CommitLen)
CommitUpper == Rep("A", CommitLen)
TreeC == Rep("c", CommitLen)
TreeBad == Subst(TreeC, CommitLen, "g")
ParentD == Rep("d", CommitLen)
ParentBad == Append(ParentD, "\n")
TagGood == <<"v", "1", ".", "0">>
TagBad == <<"v", ".", ".", "0">>

Request(op, commit, tagname, parent, tree) ==
    [op |-> op, commit |-> commit, tagname |-> tagname,
     parent |-> parent, tree |-> tree]
TagReq(commit, tagname) == Request("tag", commit, tagname, NoneVal, NoneVal)
BranchReq(commit, parent, tree) ==
    Request("branch", commit, NoneVal, parent, tree)
NoReq == Request("none", NoneVal, NoneVal, NoneVal, NoneVal)

\* the calls the server layer makes: accepted ones (the same commit stamped as
\* tag and as branch, with and without parent) and one rejected for each argument
TagCalls ==
    {<<CommitA, TagGood>>, <<CommitUpper, TagGood>>, <<CommitA, TagBad>>}
BranchCalls ==
    {<<CommitA, NoneVal, TreeC>>, <<CommitA, ParentD, TreeC>>,
     <<CommitUpper, NoneVal, TreeC>>, <<CommitA, NoneVal, TreeBad>>,
     <<CommitA, ParentBad, TreeC>>}

\* ------------------------------------------------------------------ Init
NoProbe == [fn |-> "none", arg |-> <<>>, res |-> FALSE]

Cfg(m, timeout, n) ==
    [max_parallel_signatures |-> m, max_parallel_timeout |-> timeout,
     number_of_gpg_agents |-> n]

\* the configurations checked: (max_parallel_signatures, max_parallel_timeout,
\* number_of_gpg_agents) and the extra_delay a test sets
Setups ==
    {<<Cfg(1, "1", 1), None>>, <<Cfg(2, None, 4), None>>, <<Cfg(1, None, 0), "1">>,
     <<Cfg(1, "1", 2), "-1">>, <<Cfg(2, "1", 2), None>>}

Init ==
    /\ \E s \in Setups : config = s[1] /\ extra_delay = s[2]
    /\ clock = 0
    /\ log = <<>>
    /\ lock_order = <<>>
    /\ serialize = Free
    /\ sem = config.max_parallel_signatures
    /\ gpg_serialize = Free
    /\ gpgs = InitGpgs(config.number_of_gpg_agents)
    /\ selections = InitSelections(config.number_of_gpg_agents)
    /\ pc = [t \in Threads |-> "idle"]
    /\ req = [t \in Threads |-> NoReq]
    /\ now = [t \in Threads |-> -1]
    /\ handle = [t \in Threads |-> -1]
    /\ turn = [t \in Threads |-> 0]
    /\ ret = [t \in Threads |-> "pending"]
    /\ probe = NoProbe

\* --------------------------------------------------------------- helpers
Set(f, t, v) == [f EXCEPT ![t] = v]

\* the conditions of stamp_tag and stamp_branch
tag_accepted(commit, tagname) == valid_commit(commit) /\ valid_tag(tagname)
\* stamp_branch without the check of its parent argument
branch_accepted_ParentUnchecked(commit, parent, tree) ==
    valid_commit(commit) /\ valid_commit(tree)

branch_accepted(commit, parent, tree) ==
    /\ valid_commit(commit)
    /\ valid_commit(tree)
    /\ (parent = NoneVal \/ valid_commit(parent))

\* a `with lock:` that excludes nobody
LockFree_NoExclusion(lock) == TRUE

\* `with lock:` enters when nobody holds the lock
LockFree(lock) == lock = Free

\* sig_time(): what the clock may read now, never less than it read before
sig_time == clock..MaxClock

\* log_commit without os.fsync
LogWrite_NoFsync(file, commit, t, synced) ==
    Append(file, [line |-> commit, synced |-> FALSE, by |-> t, at |-> now[t]])

\* log_commit writing the line twice
LogWrite_Twice(file, commit, t, synced) ==
    file \o << [line |-> commit, synced |-> synced, by |-> t, at |-> now[t]],
               [line |-> commit, synced |-> synced, by |-> t, at |-> now[t]] >>

\* what log_commit leaves in the file: a write that completed, fsynced or not
LogWrite(file, commit, t, synced) ==
    Append(file, [line |-> commit, synced |-> synced, by |-> t, at |-> now[t]])

\* an acquire that never blocks
SemAvailable_Always(s) == TRUE

\* threading.BoundedSemaphore
SemAvailable(s) == s > 0
SemAcquire(s) == s - 1
SemRelease(s) == s + 1
\* acquire(timeout=...) gives up only with a timeout set and no permit left
SemTimesOut(s, timeout) == timeout # None /\ s = 0

\* stamp_tag / stamp_branch without the `if sig == None` test
Returned_NoneUnchecked(op, s) == "text"

\* what stamp_tag / stamp_branch return for the `sig` limited_sign gave them:
\* None for None, else the object text with str(sig); a Sign object that holds
\* no signature is not None and its str is empty, so stamp_tag returns the tag
\* object alone, and the assert of stamp_branch on its gpgsig header fails
Returned(op, s) ==
    IF s = None THEN None
    ELSE IF s = "empty" THEN (IF op = "branch" THEN "raised" ELSE "unsigned")
    ELSE "text"

\* a call ends: its arguments and locals are gone, the caller has the outcome
Return(t, outcome) ==
    /\ pc' = Set(pc, t, "done")
    /\ ret' = Set(ret, t, outcome)
    /\ req' = Set(req, t, NoReq)
    /\ now' = Set(now, t, -1)
    /\ handle' = Set(handle, t, -1)
    /\ turn' = Set(turn, t, 0)

\* -------------------------------------------------- stamp_tag, stamp_branch
\* The call up to `now = int(self.sig_time())`: a rejected call returns 406; an
\* accepted one enters `with zeitgitter.commit.serialize` and samples the clock.
Called(t, op, commit, tagname, parent, tree, ok) ==
    /\ pc[t] = "idle"
    /\ IF ok THEN /\ LockFree(serialize)
                  /\ serialize' = t
                  /\ lock_order' = Append(lock_order, t)
                  /\ \E reading \in sig_time :
                         /\ clock' = reading
                         /\ now' = Set(now, t, reading)
                  /\ pc' = Set(pc, t, "log_commit")
                  /\ req' = Set(req, t,
                                   Request(op, commit, tagname, parent, tree))
                  /\ UNCHANGED <<ret, handle, turn>>
             ELSE /\ Return(t, "406")
                  /\ UNCHANGED <<serialize, lock_order, clock>>
    /\ UNCHANGED <<config, extra_delay, log, sem, gpg_serialize, gpgs,
                   selections, probe>>

stamp_tag(t, commit, tagname) ==
    Called(t, "tag", commit, tagname, NoneVal, NoneVal,
           tag_accepted(commit, tagname))

stamp_branch(t, commit, parent, tree) ==
    Called(t, "branch", commit, NoneVal, parent, tree,
           branch_accepted(commit, parent, tree))

\* log_commit whose I/O error is swallowed: the request goes on to sign
log_commit_FaultIgnored(t) ==
    /\ pc[t] = "log_commit"
    /\ serialize' = Free
    /\ log' \in {log, LogWrite(log, req[t].commit, t, FALSE), LogWrite(log, req[t].commit, t, TRUE)}
    /\ pc' = Set(pc, t, "limited_sign")
    /\ UNCHANGED <<ret, req, now, handle, turn>>
    /\ UNCHANGED <<config, extra_delay, clock, lock_order, sem, gpg_serialize,
                   gpgs, selections, probe>>

\* self.log_commit(commit), then the end of the `with` block; an I/O error
\* leaves the block as well, with no line (open or write failed) or with a line
\* that was not fsynced
log_commit(t) ==
    /\ pc[t] = "log_commit"
    /\ serialize' = Free
    /\ \/ /\ log' = LogWrite(log, req[t].commit, t, TRUE)
          /\ pc' = Set(pc, t, "limited_sign")
          /\ UNCHANGED <<ret, req, now, handle, turn>>
       \/ /\ log' \in {log, LogWrite(log, req[t].commit, t, FALSE)}
          /\ Return(t, "raised")
    /\ UNCHANGED <<config, extra_delay, clock, lock_order, sem, gpg_serialize,
                   gpgs, selections, probe>>

\* ------------------------------------------------------------ limited_sign
\* self.sem.acquire(timeout=self.timeout) obtained a permit: into the try block
sem_acquire(t) ==
    /\ pc[t] = "limited_sign"
    /\ SemAvailable(sem)
    /\ sem' = SemAcquire(sem)
    /\ pc' = Set(pc, t, "try")
    /\ UNCHANGED <<config, extra_delay, clock, log, lock_order, serialize,
                   gpg_serialize, gpgs, selections, req, now, handle, turn,
                   ret, probe>>

\* the acquire timed out: limited_sign returns None, and so does its caller
sem_timeout(t) ==
    /\ pc[t] = "limited_sign"
    /\ SemTimesOut(sem, config.max_parallel_timeout)
    /\ Return(t, Returned(req[t].op, None))
    /\ UNCHANGED <<config, extra_delay, clock, log, lock_order, serialize, sem,
                   gpg_serialize, gpgs, selections, probe>>

\* an exception that leaves the try block without the release
Raised_NoRelease(t, where) ==
    /\ sem' = sem
    /\ Return(t, where)

\* leaving the try block by an exception: finally releases, the caller raises
Raised(t, where) ==
    /\ sem' = SemRelease(sem)
    /\ Return(t, where)

\* if self.extra_delay: time.sleep(self.extra_delay), which raises for a
\* negative delay; then gpg() waits for `with self.gpg_serialize`
gpg_enter(t) ==
    /\ pc[t] = "try"
    /\ IF extra_delay = "-1"
         THEN Raised(t, "raised") /\ gpg_serialize' = gpg_serialize
         ELSE /\ LockFree(gpg_serialize)
              /\ gpg_serialize' = t
              /\ pc' = Set(pc, t, "gpg")
              /\ UNCHANGED <<sem, ret, req, now, handle, turn>>
    /\ UNCHANGED <<config, extra_delay, clock, log, lock_order, serialize,
                   gpgs, selections, probe>>

\* gpg() that returns with the pool lock still held
gpg_LockAcrossSign(t) ==
    /\ pc[t] = "gpg"
    /\ gpg_serialize' = gpg_serialize
    /\ gpgs' = GpgPool(gpgs, config.number_of_gpg_agents)
    /\ handle' = Set(handle, t, GpgReturned(gpgs, config.number_of_gpg_agents))
    /\ selections' = Append(selections, handle'[t])
    /\ turn' = Set(turn, t, Len(selections'))
    /\ pc' = Set(pc, t, "sign")
    /\ UNCHANGED <<sem, ret, req, now>>
    /\ UNCHANGED <<config, extra_delay, clock, log, lock_order, serialize, probe>>

\* gpg(): the body and the end of the `with` block; creating a handle (lstat,
\* symlink_to, gnupg.GPG) may raise, which leaves the pool as it was
gpg(t) ==
    /\ pc[t] = "gpg"
    /\ gpg_serialize' = Free
    /\ \/ /\ gpgs' = GpgPool(gpgs, config.number_of_gpg_agents)
          /\ handle' = Set(handle, t, GpgReturned(gpgs, config.number_of_gpg_agents))
          /\ selections' = Append(selections, handle'[t])
          /\ turn' = Set(turn, t, Len(selections'))
          /\ pc' = Set(pc, t, "sign")
          /\ UNCHANGED <<sem, ret, req, now>>
       \/ /\ GpgGrows(gpgs, config.number_of_gpg_agents)
          /\ Raised(t, "raised")
          /\ UNCHANGED <<gpgs, selections>>
    /\ UNCHANGED <<config, extra_delay, clock, log, lock_order, serialize, probe>>

\* .sign(...) ends, finally: self.sem.release(), return ret, and the caller
\* returns. The Sign object carries a signature, or none when gpg failed; or
\* the call raises.
sign(t) ==
    /\ pc[t] = "sign"
    /\ \/ \E s \in {"signature", "empty"} :
             /\ sem' = SemRelease(sem)
             /\ Return(t, Returned(req[t].op, s))
       \/ Raised(t, "raised")
    /\ UNCHANGED <<config, extra_delay, clock, log, lock_order, serialize,
                   gpg_serialize, gpgs, selections, probe>>

\* ------------------------------------------------------------------ Next
Next ==
    \/ \E t \in Threads : \E r \in TagCalls : stamp_tag(t, r[1], r[2])
    \/ \E t \in Threads : \E r \in BranchCalls : stamp_branch(t, r[1], r[2], r[3])
    \/ \E t \in Threads : log_commit(t)
    \/ \E t \in Threads : sem_acquire(t)
    \/ \E t \in Threads : sem_timeout(t)
    \/ \E t \in Threads : gpg_enter(t)
    \/ \E t \in Threads : gpg(t)
    \/ \E t \in Threads : sign(t)

Spec == Init /\ [][Next]_vars

\* A thread that can go on does: a file write, a lock or permit that is handed
\* over, and a signing invocation all end. Nothing makes an idle thread call.
Fairness ==
    \A t \in Threads :
        /\ WF_vars(log_commit(t))
        /\ WF_vars(sem_acquire(t))
        /\ WF_vars(sem_timeout(t))
        /\ WF_vars(gpg_enter(t))
        /\ WF_vars(gpg(t))
        /\ WF_vars(sign(t))

SpecFair == Spec /\ Fairness

\* ------------------------------------- threads that serve request after request
\* The server layer calls the same Stamper again on a thread whose call ended;
\* the calls are accepted tag requests, MaxRequests of them at most, with pools
\* at least as large as the limit and the clock fixed (IGITT_FAKE_TIME).
ServeSetups == {<<Cfg(2, None, 2), None>>, <<Cfg(1, None, 2), None>>}

InitServe ==
    /\ \E s \in ServeSetups : config = s[1] /\ extra_delay = s[2]
    /\ clock = MaxClock
    /\ log = <<>>
    /\ lock_order = <<>>
    /\ serialize = Free
    /\ sem = config.max_parallel_signatures
    /\ gpg_serialize = Free
    /\ gpgs = InitGpgs(config.number_of_gpg_agents)
    /\ selections = InitSelections(config.number_of_gpg_agents)
    /\ pc = [t \in Threads |-> "idle"]
    /\ req = [t \in Threads |-> NoReq]
    /\ now = [t \in Threads |-> -1]
    /\ handle = [t \in Threads |-> -1]
    /\ turn = [t \in Threads |-> 0]
    /\ ret = [t \in Threads |-> "pending"]
    /\ probe = NoProbe

next_request(t) ==
    /\ pc[t] = "done"
    /\ Len(lock_order) + Cardinality({u \in Threads : pc[u] = "idle"}) < MaxRequests
    /\ pc' = Set(pc, t, "idle")
    /\ ret' = Set(ret, t, "pending")
    /\ UNCHANGED <<config, extra_delay, clock, log, lock_order, serialize, sem,
                   gpg_serialize, gpgs, selections, req, now, handle, turn, probe>>

NextServe ==
    \/ \E t \in Threads : stamp_tag(t, CommitA, TagGood)
    \/ \E t \in Threads : log_commit(t)
    \/ \E t \in Threads : sem_acquire(t)
    \/ \E t \in Threads : gpg_enter(t)
    \/ \E t \in Threads : gpg(t)
    \/ \E t \in Threads : sign(t)
    \/ \E t \in Threads : next_request(t)

SpecServe == InitServe /\ [][NextServe]_vars

\* ------------------------------------------- the validators on their own
\* strings around the length the pattern asks for: one character repeated,
\* with one position holding another character
ProbeChars == {"0", "9", "a", "f", "A", "F", "g", "G", "-", "\n"}
ProbeLens == (CommitLen - LenSlack)..(CommitLen + LenSlack)
ProbeStrings ==
    {Subst(Rep(c, n), p, d) : c \in ProbeChars, d \in ProbeChars,
                              n \in ProbeLens, p \in {1, CommitLen, CommitLen + 1}}
    \cup {<<>>}

InitProbe ==
    /\ config = Cfg(1, None, 1)
    /\ extra_delay = None
    /\ clock = 0
    /\ log = <<>>
    /\ lock_order = <<>>
    /\ serialize = Free
    /\ sem = config.max_parallel_signatures
    /\ gpg_serialize = Free
    /\ gpgs = InitGpgs(config.number_of_gpg_agents)
    /\ selections = InitSelections(config.number_of_gpg_agents)
    /\ pc = [t \in Threads |-> "idle"]
    /\ req = [t \in Threads |-> NoReq]
    /\ now = [t \in Threads |-> -1]
    /\ handle = [t \in Threads |-> -1]
    /\ turn = [t \in Threads |-> 0]
    /\ ret = [t \in Threads |-> "pending"]
    /\ probe = NoProbe

call_valid_commit(commit) ==
    /\ probe.fn = "none"
    /\ probe' = [fn |-> "valid_commit", arg |-> commit, res |-> valid_commit(commit)]
    /\ UNCHANGED <<config, extra_delay, clock, log, lock_order, serialize, sem,
                   gpg_serialize, gpgs, selections, pc, req, now, handle, turn, ret>>

NextValidCommit == \E commit \in ProbeStrings : call_valid_commit(commit)

SpecValidCommit == InitProbe /\ [][NextValidCommit]_vars

\* tag names around the lengths the pattern allows: one character repeated,
\* with the first and one other position holding other characters
TagProbeChars == {"a", "Z", "0", "-", ".", "_", "\n", " ", "U+017F", "U+00E9"}
TagProbeLens ==
    (0..(1 + LenSlack)) \cup ((TagTail + 1 - LenSlack)..(TagTail + 1 + LenSlack))
TagProbeStrings ==
    {Subst(Subst(Rep(c, n), 1, a), p, d) :
         a \in TagProbeChars, c \in {"a", ".", "9"}, d \in TagProbeChars,
         n \in TagProbeLens, p \in {2, TagTail + 1, TagTail + 2}}

call_valid_tag(tag) ==
    /\ probe.fn = "none"
    /\ probe' = [fn |-> "valid_tag", arg |-> tag, res |-> valid_tag(tag)]
    /\ UNCHANGED <<config, extra_delay, clock, log, lock_order, serialize, sem,
                   gpg_serialize, gpgs, selections, pc, req, now, handle, turn, ret>>

NextValidTag == \E tag \in TagProbeStrings : call_valid_tag(tag)

SpecValidTag == InitProbe /\ [][NextValidTag]_vars

\* ------------------------------------------------ the object text on its own
\* Texts are sequences of pieces: the characters of the arguments and of the
\* signature, one piece per literal of the format strings, "\n" on its own.
DigitChars == <<"0", "1", "2", "3", "4", "5", "6", "7", "8", "9">>
RECURSIVE Decimal(_)
\* '%d' % n and str(n), n >= 0
Decimal(n) ==
    IF n < 10 THEN <<DigitChars[n + 1]>>
    ELSE Decimal(n \div 10) \o <<DigitChars[(n % 10) + 1]>>
TwoDigits(n) == <<DigitChars[(n \div 10) + 1], DigitChars[(n % 10) + 1]>>
\* time.strftime("%Y-%m-%d %H:%M:%S UTC", time.gmtime(now)) within the first day
isonow(t) ==
    <<"1970-01-01", " ">> \o TwoDigits(t \div 3600) \o <<":">>
        \o TwoDigits((t % 3600) \div 60) \o <<":">> \o TwoDigits(t % 60)
        \o <<" UTC">>
fullid == <<"self.fullid">>
url == <<"self.url">>

\* stamp_branch that lists the parent argument only
commitobj1_ParentArgOnly(commit, parent, tree, t) ==
    <<"tree ">> \o tree \o <<"\n">>
        \o (IF parent = NoneVal THEN <<>> ELSE <<"parent ">> \o parent \o <<"\n">>)
        \o <<"author ">> \o fullid \o <<" ">> \o Decimal(t) \o <<" +0000", "\n">>
        \o <<"committer ">> \o fullid \o <<" ">> \o Decimal(t) \o <<" +0000", "\n">>

commitobj1(commit, parent, tree, t) ==
    IF parent = NoneVal
      THEN <<"tree ">> \o tree \o <<"\n">>
               \o <<"parent ">> \o commit \o <<"\n">>
               \o <<"author ">> \o fullid \o <<" ">> \o Decimal(t) \o <<" +0000", "\n">>
               \o <<"committer ">> \o fullid \o <<" ">> \o Decimal(t) \o <<" +0000", "\n">>
      ELSE <<"tree ">> \o tree \o <<"\n">>
               \o <<"parent ">> \o parent \o <<"\n">>
               \o <<"parent ">> \o commit \o <<"\n">>
               \o <<"author ">> \o fullid \o <<" ">> \o Decimal(t) \o <<" +0000", "\n">>
               \o <<"committer ">> \o fullid \o <<" ">> \o Decimal(t) \o <<" +0000", "\n">>

commitobj2(t) ==
    <<"\n">> \o url \o <<" branch timestamp ">> \o isonow(t) \o <<"\n">>

RECURSIVE replace(_, _, _)
\* str.replace(old, new) for a one-character old
replace(str, old, new) ==
    IF str = <<>> THEN <<>>
    ELSE (IF Head(str) = old THEN new ELSE <<Head(str)>>)
             \o replace(Tail(str), old, new)

\* the header built without cutting the last character off
gpgsig_NothingCut(sig) ==
    <<"g", "p", "g", "s", "i", "g", " ">> \o replace(sig, "\n", <<"\n", " ">>)

\* 'gpgsig ' + str(sig).replace('\n', '\n ')[:-1]
gpgsig(sig) ==
    <<"g", "p", "g", "s", "i", "g", " ">>
        \o SubSeq(replace(sig, "\n", <<"\n", " ">>), 1,
                  Len(replace(sig, "\n", <<"\n", " ">>)) - 1)

\* stamp_branch from `commitobj1 = ...` on, given what limited_sign returned:
\* the data handed to limited_sign and what the call returns
branch_object(commit, parent, tree, t, sig) ==
    [data |-> commitobj1(commit, parent, tree, t) \o commitobj2(t),
     text |-> IF sig = NoneVal THEN NoneVal
              ELSE IF gpgsig(sig)[Len(gpgsig(sig))] # "\n" THEN <<"AssertionError">>
              ELSE commitobj1(commit, parent, tree, t) \o gpgsig(sig) \o commitobj2(t)]

\* what str(sig) may be: texts of up to MaxSigLen characters
SigChars == {"S", "\n", " "}
SigTexts == UNION {[1..n -> SigChars] : n \in 0..MaxSigLen}

call_branch_object(parent, t, sig) ==
    /\ probe.fn = "none"
    /\ probe' = [fn |-> "stamp_branch",
                 arg |-> [commit |-> CommitA, parent |-> parent, tree |-> TreeC,
                          now |-> t, sig |-> sig],
                 res |-> branch_object(CommitA, parent, TreeC, t, sig)]
    /\ UNCHANGED <<config, extra_delay, clock, log, lock_order, serialize, sem,
                   gpg_serialize, gpgs, selections, pc, req, now, handle, turn, ret>>

NextBranchObject ==
    \E parent \in {NoneVal, ParentD} : \E t \in 0..MaxClock :
        \E sig \in SigTexts \cup {NoneVal} : call_branch_object(parent, t, sig)

SpecBranchObject == InitProbe /\ [][NextBranchObject]_vars

\* ================================================================ claims
InFlight == {"log_commit", "limited_sign", "try", "gpg", "sign"}
InScope == {"try", "gpg", "sign"}
Inside == {t \in Threads : pc[t] \in InScope}
LinesBy(t) == {i \in DOMAIN log : log[i].by = t}
Max(a, b) == IF a >= b THEN a ELSE b

\* C1: a request that waits for a permit, holds one, or has its signing
\* invocation running has its commit id appended and fsynced in the log; and a
\* call that returned object text left such a line.
C1_LogBeforeSign ==
    \A t \in Threads :
        /\ pc[t] \in {"limited_sign", "try", "gpg", "sign"} =>
               \E i \in LinesBy(t) : log[i].line = req[t].commit /\ log[i].synced
        /\ ret[t] \in {"text", "unsigned"} => \E i \in LinesBy(t) : log[i].synced

C1_Witness ==
    \E t \in Threads :
        /\ pc[t] = "sign"
        /\ \E i \in LinesBy(t) : log[i].line = req[t].commit /\ log[i].synced

\* C2: of two lines of the log, the earlier one carries a sampled time that is
\* less than or equal to the later one's.
C2_LogOrderIsTimeOrder ==
    \A i, j \in DOMAIN log : i < j => log[i].at <= log[j].at

C2_Witness ==
    \E i, j \in DOMAIN log :
        /\ i < j
        /\ log[i].at < log[j].at
        /\ log[i].by # log[j].by
        /\ pc[log[i].by] \in InFlight

\* C3 as claimed: every accepted request that has left the ordering lock has
\* exactly one line, so the log's writers are the lock's holders in lock order.
C3_OneLinePerAccepted ==
    [i \in DOMAIN log |-> log[i].by]
        = SelectSeq(lock_order, LAMBDA t : pc[t] # "log_commit")

\* C3 as amended: a request whose append completes leaves exactly one line, its
\* commit id; one whose append raises leaves at most one line, its commit id;
\* a rejected request leaves none; the writers of the log are the holders of
\* the lock that wrote, in lock order; every step keeps the lines there are and
\* appends at most one.
C3_LogState ==
    /\ [i \in DOMAIN log |-> log[i].by]
           = SelectSeq(lock_order, LAMBDA t : LinesBy(t) # {})
    /\ \A t \in Threads :
           /\ Cardinality(LinesBy(t)) <= 1
           /\ pc[t] \in {"limited_sign", "try", "gpg", "sign"} \/ ret[t] \in {None, "text", "unsigned"}
                  => Cardinality(LinesBy(t)) = 1
           /\ pc[t] \in {"idle", "log_commit"} \/ ret[t] = "406" => LinesBy(t) = {}
           /\ pc[t] \in InFlight =>
                  \A i \in LinesBy(t) : log[i].line = req[t].commit

C3_LogStep ==
    /\ Len(log') \in {Len(log), Len(log) + 1}
    /\ SubSeq(log', 1, Len(log)) = log
    /\ \A t \in Threads :
           /\ pc[t] = "log_commit" /\ pc'[t] = "limited_sign" =>
                  /\ Len(log') = Len(log) + 1
                  /\ log'[Len(log')].line = req[t].commit
                  /\ log'[Len(log')].by = t
           /\ pc[t] = "log_commit" /\ pc'[t] = "done" /\ log' # log =>
                  /\ log'[Len(log')].line = req[t].commit
                  /\ log'[Len(log')].by = t

\* C3 (amended): C3_LogState in every state and C3_LogStep in every step.
C3_OneLinePerLoggedRequest == []C3_LogState /\ [][C3_LogStep]_vars

C3_Witness ==
    /\ Len(log) = 2
    /\ log[1].line = log[2].line
    /\ \E t \in Threads : ret[t] = None /\ Cardinality(LinesBy(t)) = 1

\* C4: a call that ends at once with 406 had an invalid argument and changes
\* nothing but its own outcome; a call that is taken on had valid arguments.
ValidCall(r) ==
    IF r.op = "tag"
      THEN valid_commit(r.commit) /\ valid_tag(r.tagname)
      ELSE /\ valid_commit(r.commit)
           /\ valid_commit(r.tree)
           /\ (r.parent # NoneVal => valid_commit(r.parent))

C4_Step ==
    \A t \in Threads :
        /\ pc[t] = "idle" /\ pc'[t] = "log_commit" => ValidCall(req'[t])
        /\ pc[t] = "idle" /\ pc'[t] = "done" =>
               /\ ret'[t] = "406"
               /\ UNCHANGED <<log, lock_order, serialize, clock, sem,
                              gpg_serialize, gpgs, selections>>
               /\ \/ \E r \in TagCalls :
                         /\ ~ValidCall(TagReq(r[1], r[2]))
                         /\ stamp_tag(t, r[1], r[2])
                  \/ \E r \in BranchCalls :
                         /\ ~ValidCall(BranchReq(r[1], r[2], r[3]))
                         /\ stamp_branch(t, r[1], r[2], r[3])

\* C4: every step satisfies C4_Step.
C4_RejectedChangesNothing == [][C4_Step]_vars

C4_Witness ==
    \E t, u \in Threads : ret[t] = "406" /\ pc[u] = "log_commit" /\ serialize = u

\* C5: the requests between a successful acquire and its release are at most
\* max_parallel_signatures.
C5_BoundedSigning == Cardinality(Inside) <= config.max_parallel_signatures

C5_Witness ==
    /\ Cardinality(Inside) = config.max_parallel_signatures
    /\ \E t \in Threads : pc[t] = "limited_sign"

\* C6: the permits available plus the requests inside the guarded scope are
\* max_parallel_signatures, whatever way requests left the scope.
C6_PermitConservation ==
    /\ sem + Cardinality(Inside) = config.max_parallel_signatures
    /\ sem <= config.max_parallel_signatures
    /\ Inside = {} => sem = config.max_parallel_signatures

C6_Witness ==
    /\ extra_delay = "-1"
    /\ \E t \in Threads : ret[t] = "raised" /\ \E i \in LinesBy(t) : log[i].synced
    /\ sem = config.max_parallel_signatures

\* C7: a request leaves the wait for a permit without one only with a timeout
\* configured and no permit left; it then ends with None, its line is in the
\* log, and permits, pool and pool lock stay as they were.
C7_Step ==
    \A t \in Threads :
        pc[t] = "limited_sign" /\ pc'[t] = "done" =>
            /\ config.max_parallel_timeout # None
            /\ sem = 0
            /\ ret'[t] = None
            /\ \E i \in LinesBy(t) : log[i].line = req[t].commit /\ log[i].synced
            /\ UNCHANGED <<sem, gpgs, selections, gpg_serialize, log>>

\* C7: every step satisfies C7_Step.
C7_AdmissionTimeout == [][C7_Step]_vars

C7_Witness ==
    \E t, u \in Threads :
        /\ ret[t] = None
        /\ pc[u] = "sign"
        /\ config.max_parallel_signatures = 1

\* the selections made for requests, after the two of __init__
RequestSelections == Len(selections) - Len(InitSelections(config.number_of_gpg_agents))
Agents == config.number_of_gpg_agents
Handles(pool) == {pool[i] : i \in DOMAIN pool}

\* C8 as claimed: after k request selections with 1 <= k <= number_of_gpg_agents
\* the pool holds exactly k handles.
C8_KHandlesAfterKRequests ==
    RequestSelections >= 1 /\ RequestSelections <= Agents
        => Len(gpgs) = RequestSelections

\* C8 as amended: the constructor leaves min(max(n, 1), 3) handles; after k
\* request selections the pool holds n handles if n <= 3 (one if n = 0), else
\* min(n, 3 + k); no step removes a handle or lets the count decrease.
ExpectedHandles(n, k) ==
    IF n <= 1 THEN 1
    ELSE IF n <= 3 THEN n
    ELSE IF 3 + k < n THEN 3 + k ELSE n

C8_PoolSize == Len(gpgs) = ExpectedHandles(Agents, RequestSelections)

C8_PoolStep ==
    /\ Len(gpgs') >= Len(gpgs)
    /\ Handles(gpgs) \subseteq Handles(gpgs')
    /\ Len(gpgs) >= Agents => Len(gpgs') = Len(gpgs)

\* C8 (amended): C8_PoolSize in every state and C8_PoolStep in every step.
C8_PoolGrowthCapped == []C8_PoolSize /\ [][C8_PoolStep]_vars

C8_Witness ==
    /\ Agents = 4
    /\ RequestSelections = 2
    /\ Len(gpgs) = 4

\* C9: with the pool at its cap a selection returns the front handle and moves
\* it to the back; the handles of the pool are pairwise distinct and stay the
\* same; the selections made at the cap repeat with the pool's size as period,
\* so any window of twice that size holds each handle twice, in the same order.
AtCap == SubSeq(selections, Max(Agents, 1), Len(selections))

C9_PoolState ==
    /\ \A i, j \in DOMAIN gpgs : i # j => gpgs[i] # gpgs[j]
    /\ Len(gpgs) >= Agents =>
           /\ \A i \in 1..(Len(AtCap) - Len(gpgs)) : AtCap[i + Len(gpgs)] = AtCap[i]
           /\ \A i, j \in DOMAIN AtCap :
                  i < j /\ j < i + Len(gpgs) => AtCap[i] # AtCap[j]
           /\ \A i \in DOMAIN AtCap : AtCap[i] \in Handles(gpgs)

C9_PoolStep ==
    Len(gpgs) >= Agents =>
        /\ Handles(gpgs') = Handles(gpgs)
        /\ selections' # selections =>
               /\ selections' = Append(selections, Head(gpgs))
               /\ gpgs' = Append(Tail(gpgs), Head(gpgs))
               /\ \E t \in Threads : pc[t] = "gpg" /\ handle'[t] = Head(gpgs)

\* C9: C9_PoolState in every state and C9_PoolStep in every step.
C9_RoundRobin == []C9_PoolState /\ [][C9_PoolStep]_vars

C9_Witness ==
    /\ Agents = 2
    /\ Len(AtCap) >= 3
    /\ AtCap[1] # AtCap[2]
    /\ AtCap[3] = AtCap[1]

\* C10 as claimed: valid_commit holds exactly of the strings of 40 characters
\* that are all hexadecimal digits of either case, none a newline.
HexAnyCase == HexLower \cup {"A", "B", "C", "D", "E", "F"}
C10_HexAnyCase ==
    probe.fn = "valid_commit" =>
        (probe.res <=> /\ Len(probe.arg) = CommitLen
                       /\ \A i \in DOMAIN probe.arg : probe.arg[i] \in HexAnyCase)

\* C10 as amended: valid_commit holds exactly of the strings of 40 characters
\* that are all digits or lower-case a-f; so it is false for any other length,
\* for a character outside 0-9a-f (an upper-case A-F too) and for a newline.
C10_HexLowerOnly ==
    probe.fn = "valid_commit" =>
        (probe.res <=> /\ Len(probe.arg) = CommitLen
                       /\ \A i \in DOMAIN probe.arg : probe.arg[i] \in HexLower)

C10_Witness ==
    /\ probe.fn = "valid_commit"
    /\ probe.res
    /\ \E i \in DOMAIN probe.arg : probe.arg[i] = "f"
    /\ \E i \in DOMAIN probe.arg : probe.arg[i] = "0"

\* C11 as claimed: valid_tag holds exactly of the strings without a newline
\* that start with an ASCII letter of either case, go on with at most 99
\* characters that are ASCII letters, digits, '-', '.' or '_', and hold no '..'.
AsciiLetters == Lower \cup Upper
C11_AsciiTagGrammar ==
    probe.fn = "valid_tag" =>
        (probe.res <=> /\ ~HasNewline(probe.arg)
                       /\ Len(probe.arg) >= 1
                       /\ Len(probe.arg) <= 1 + TagTail
                       /\ probe.arg[1] \in AsciiLetters
                       /\ \A i \in 2..Len(probe.arg) :
                              probe.arg[i] \in AsciiLetters \cup Digits \cup {"-", ".", "_"}
                       /\ ~HasDotDot(probe.arg))

\* the state of the per-request machine a thread is in; the steps of the model
\* pass Validating inside the call and Formatting inside the return
Stage(p, r) ==
    IF p = "idle" THEN "Received"
    ELSE IF p = "log_commit" THEN "Logging"
    ELSE IF p \in {"limited_sign", "try", "gpg", "sign"} THEN "Signing"
    ELSE IF r = "406" THEN "Rejected"
    ELSE IF r = None THEN "Unavailable"
    ELSE IF r \in {"text", "unsigned"} THEN "Completed"
    ELSE "Faulted"
StageEdges ==
    {<<"Received", "Rejected">>, <<"Received", "Logging">>,
     <<"Logging", "Signing">>, <<"Signing", "Signing">>,
     <<"Signing", "Unavailable">>, <<"Signing", "Completed">>}
Rank(p) ==
    CASE p = "idle" -> 0 [] p = "log_commit" -> 1 [] p = "limited_sign" -> 2
      [] p = "try" -> 3 [] p = "gpg" -> 4 [] p = "sign" -> 5 [] p = "done" -> 6

\* the resources of a request are touched only by the one step that leaves the
\* matching position, and positions never repeat: no second clock sample, log
\* append, permit attempt, handle selection or signing invocation
OnceEach(t) ==
    /\ pc'[t] # pc[t] => Rank(pc'[t]) > Rank(pc[t])
    /\ now'[t] # now[t] /\ now'[t] # -1 => pc[t] = "idle" /\ pc'[t] = "log_commit"
    /\ LinesBy(t)' # LinesBy(t) => pc[t] = "log_commit" /\ pc'[t] # pc[t]
    /\ pc[t] = "limited_sign" /\ sem' < sem /\ pc'[t] # pc[t] => pc'[t] = "try"
    /\ turn'[t] # turn[t] /\ turn'[t] # 0 => pc[t] = "gpg" /\ pc'[t] = "sign"
    /\ pc[t] = "sign" => pc'[t] \in {"sign", "done"}

C12_Step ==
    \A t \in Threads :
        /\ \/ Stage(pc'[t], ret'[t]) = Stage(pc[t], ret[t])
           \/ <<Stage(pc[t], ret[t]), Stage(pc'[t], ret'[t])>> \in StageEdges
        /\ pc[t] = "done" => pc'[t] = "done" /\ ret'[t] = ret[t]
        /\ OnceEach(t)

\* C12 as claimed: every step of a request is an edge of Received -> Validating
\* -> {Rejected | Logging -> Signing -> {Unavailable | Formatting -> Completed}},
\* the three terminal states have no outgoing step, and a request samples the
\* clock, appends, tries for a permit, selects a handle and invokes signing at
\* most once.
C12_StateMachineNoRetry == [][C12_Step]_vars

\* C13, in every state: no thread holds both locks; the ordering lock is held
\* exactly by the thread between its clock read and the end of its append, the
\* pool lock exactly by the thread inside gpg(); so a thread that waits for a
\* permit, holds one outside gpg(), or has its signing invocation running
\* holds neither.
C13_LockState ==
    \A t \in Threads :
        /\ ~(serialize = t /\ gpg_serialize = t)
        /\ serialize = t <=> pc[t] = "log_commit"
        /\ gpg_serialize = t <=> pc[t] = "gpg"
        /\ pc[t] \in {"limited_sign", "try", "sign"} =>
               serialize # t /\ gpg_serialize # t

\* C13, in every step: the step that takes the ordering lock reads the clock,
\* the step that releases it appends at most one line, and while it is held no
\* other thread changes clock or log; the step that releases the pool lock
\* did at most one growth or rotation, and no other step changes the pool.
C13_LockStep ==
    \A t \in Threads :
        /\ serialize # t /\ serialize' = t => now'[t] = clock' /\ log' = log
        /\ serialize = t /\ serialize' # t =>
               /\ serialize' = Free
               /\ Len(log') <= Len(log) + 1
               /\ clock' = clock
        /\ serialize = t /\ serialize' = t => clock' = clock /\ log' = log
        /\ gpg_serialize # t /\ gpg_serialize' = t => gpgs' = gpgs
        /\ gpg_serialize = t /\ gpg_serialize' # t =>
               /\ gpg_serialize' = Free
               /\ gpgs' \in {gpgs, GpgPool(gpgs, Agents)}
        /\ gpg_serialize = t /\ gpg_serialize' = t => gpgs' = gpgs
        /\ gpg_serialize = Free /\ gpg_serialize' = Free => gpgs' = gpgs

\* C13: C13_LockState in every state and C13_LockStep in every step.
C13_LockDiscipline == []C13_LockState /\ [][C13_LockStep]_vars

C13_Witness ==
    \E t, u \in Threads :
        /\ serialize = t
        /\ gpg_serialize = u
        /\ pc[t] = "log_commit"
        /\ pc[u] = "gpg"

\* C14 as claimed: with number_of_gpg_agents >= max_parallel_signatures no two
\* signing invocations in progress run on the same handle.
C14_HandleExclusive ==
    Agents >= config.max_parallel_signatures =>
        \A t, u \in Threads :
            t # u /\ pc[t] = "sign" /\ pc[u] = "sign" => handle[t] # handle[u]

\* C14 as amended: a signing invocation runs on the handle its selection
\* returned; two invocations in progress run on the same handle only if their
\* selections lie at least a pool size apart (the pool is then at its cap), so
\* a handle is shared only with a call that has been running for a full round
\* of selections; with max_parallel_signatures = 1 no handle is shared.
C14_SharedOnlyAfterFullRound ==
    /\ \A t \in Threads :
           pc[t] = "sign" => turn[t] \in DOMAIN selections
                             /\ selections[turn[t]] = handle[t]
    /\ \A t, u \in Threads :
           t # u /\ pc[t] = "sign" /\ pc[u] = "sign" /\ handle[t] = handle[u] =>
               /\ config.max_parallel_signatures > 1
               /\ Len(gpgs) >= Agents
               /\ turn[t] - turn[u] >= Len(gpgs) \/ turn[u] - turn[t] >= Len(gpgs)

C14_Witness ==
    /\ Agents >= config.max_parallel_signatures
    /\ \E t, u \in Threads :
           /\ t # u
           /\ pc[t] = "sign"
           /\ pc[u] = "sign"
           /\ handle[t] = handle[u]
           /\ turn[t] - turn[u] >= Len(gpgs)

\* the header labels of a text, in order, and the 40 characters after position i
Labels(text) ==
    SelectSeq(text, LAMBDA x : x \in {"tree ", "parent ", "author ", "committer "})
After(text, i) == SubSeq(text, i + 1, i + CommitLen)
Positions(text, label) == {i \in DOMAIN text : text[i] = label}
Built == probe.fn = "stamp_branch" /\ probe.res.text \notin {NoneVal, <<"AssertionError">>}

\* C15 as claimed: with parent absent neither the signed data nor the returned
\* commit object holds a parent header; the headers are tree, author, committer.
C15_NoParentHeader ==
    probe.fn = "stamp_branch" /\ probe.arg.parent = NoneVal =>
        /\ Labels(probe.res.data) = <<"tree ", "author ", "committer ">>
        /\ Built => Labels(probe.res.text) = <<"tree ", "author ", "committer ">>

\* C15 as amended: with parent absent the signed data and the returned commit
\* object hold exactly one parent header, which names the commit being stamped,
\* between the tree and the author header; with parent given they hold two, the
\* parent argument first and the stamped commit second.
C15_HeadersOf(text) ==
    IF probe.arg.parent = NoneVal
      THEN /\ Labels(text) = <<"tree ", "parent ", "author ", "committer ">>
           /\ Positions(text, "parent ") = {CommitLen + 3}
           /\ After(text, CommitLen + 3) = probe.arg.commit
      ELSE /\ Labels(text) = <<"tree ", "parent ", "parent ", "author ", "committer ">>
           /\ Positions(text, "parent ") = {CommitLen + 3, 2 * CommitLen + 5}
           /\ After(text, CommitLen + 3) = probe.arg.parent
           /\ After(text, 2 * CommitLen + 5) = probe.arg.commit

C15_CommitIsAlwaysAParent ==
    probe.fn = "stamp_branch" =>
        /\ probe.res.data[1] = "tree "
        /\ After(probe.res.data, 1) = probe.arg.tree
        /\ C15_HeadersOf(probe.res.data)
        /\ Built => C15_HeadersOf(probe.res.text)

C15_Witness ==
    /\ Built
    /\ probe.arg.parent = NoneVal
    /\ Positions(probe.res.text, "parent ") # {}
    /\ probe.arg.sig = <<"S", "\n">>

\* the signature with every newline but the last followed by one space
RECURSIVE ContinuedFrom(_, _)
ContinuedFrom(sig, i) ==
    IF i > Len(sig) THEN <<>>
    ELSE (IF sig[i] = "\n" /\ i < Len(sig) THEN <<"\n", " ">> ELSE <<sig[i]>>)
             \o ContinuedFrom(sig, i + 1)
Continued(sig) == ContinuedFrom(sig, 1)
\* where the blank line that starts commitobj2 begins in the signed data
PartsAt(data) ==
    CHOOSE k \in 1..(Len(data) - 1) : data[k] = "\n" /\ data[k + 1] = "\n"

\* C16: for a signature text that ends with a newline the call returns the
\* signed data with the header put in before its blank line, and the header is
\* 'gpgsig ' and the signature with every newline but the last followed by one
\* space, the last left as it is.
C16_GpgsigContinuation ==
    probe.fn = "stamp_branch" /\ probe.arg.sig # NoneVal /\ probe.arg.sig # <<>>
      /\ probe.arg.sig[Len(probe.arg.sig)] = "\n" =>
        LET data == probe.res.data
            k == PartsAt(data)
            header == <<"g", "p", "g", "s", "i", "g", " ">> \o Continued(probe.arg.sig)
        IN  /\ probe.res.text = SubSeq(data, 1, k) \o header \o SubSeq(data, k + 1, Len(data))
            /\ header[Len(header)] = "\n"
            /\ data[k - 1] = " +0000"

C16_Witness ==
    /\ probe.fn = "stamp_branch"
    /\ probe.arg.sig = <<"S", "\n", "S", "\n">>
    /\ \E i \in DOMAIN probe.res.text :
           SubSeq(probe.res.text, i, i + 11)
               = <<"g", "p", "g", "s", "i", "g", " ", "S", "\n", " ", "S", "\n">>

\* C17 as claimed: a signing invocation ends with the object text that holds its
\* signature, or, having failed, with the unavailable outcome None; never with
\* text that lacks the signature and never with a fault passed on.
C17_Step ==
    \A t \in Threads :
        pc[t] = "sign" /\ pc'[t] = "done" => ret'[t] \in {"text", None}

C17_SignFaultsEndUnavailable == [][C17_Step]_vars

\* a line of t's request is in the log, fsynced
Durable(t) == \E i \in LinesBy(t) : log[i].synced

\* C18: a request leaves log_commit without a durable line of its own only by
\* ending there: the ordering lock is free again, permits, pool, pool lock and
\* selections are untouched, it has no handle and no object text, and an ended
\* request never moves again; whoever waits for a permit, holds one or signs
\* has its durable line.
C18_Step ==
    \A t \in Threads :
        /\ pc[t] = "log_commit" /\ pc'[t] # "log_commit" /\ ~Durable(t)' =>
               /\ pc'[t] = "done"
               /\ ret'[t] \notin {"text", "unsigned"}
               /\ serialize' = Free
               /\ handle'[t] = -1 /\ turn'[t] = 0
               /\ UNCHANGED <<sem, gpgs, selections, gpg_serialize>>
        /\ pc[t] = "done" => pc'[t] = "done"

C18_State ==
    \A t \in Threads :
        pc[t] \in {"limited_sign", "try", "gpg", "sign"} \/ turn[t] # 0 => Durable(t)

C18_WriteFailureAborts == []C18_State /\ [][C18_Step]_vars

C18_Witness ==
    \E t, u \in Threads :
        /\ lock_order = <<t, u>>
        /\ pc[t] = "done" /\ ~Durable(t)
        /\ pc[u] = "sign" /\ Durable(u)
        /\ serialize = Free

\* C19 as claimed: a call that has ended ended with object text, with None
\* (unavailable) or with 406 (client error), never with a fault passed on.
C19_TypedOutcomesOnly ==
    \A t \in Threads :
        pc[t] = "done" => ret[t] \in {"text", "unsigned", None, "406"}

\* C20 as claimed: every request that was made ends Rejected, Unavailable or
\* Completed.
C20_EveryRequestTerminates ==
    \A t \in Threads :
        pc[t] # "idle" ~>
            Stage(pc[t], ret[t]) \in {"Rejected", "Unavailable", "Completed"}

====
